---- MODULE Spec2Model ----
(***************************************************************************)
(* Announcement pipeline of the Kokoro TTS server.                         *)
(*                                                                         *)
(* Three specifications share the variables of this module:                *)
(*   SpecSched  the Scheduler (add_message) and the Synthesizer's pull of  *)
(*              the server with pending_messages / Config; its source is   *)
(*              not part of src/, so it is modelled from spec.md 4.2-4.3   *)
(*              and from src/test_kokoro_server.py;                        *)
(*   Spec       the monolithic server src/kokoro-server.py: handle_client, *)
(*              generation_worker, playback_worker, play_audio_file;       *)
(*   SpecPlayer the Player loop of spec.md 4.4 driving the AudioPlayer of  *)
(*              src/claude_code_tts_server/core/playback.py.               *)
(* Time is counted in poll ticks of 50 ms (asyncio.sleep(0.05)).           *)
(***************************************************************************)
EXTENDS Integers, Sequences, FiniteSets, TLC

\* ---------------------------------------------------------------- bounds
\* messages submitted in one run
MaxMsgs == 6
\* Config.max_queue used by the model (test_queue_max_limit)
MAX_QUEUE == 3
\* messages already in pending_messages when a run starts
MaxPreload == 2

Texts == {"a", "b"}

VARIABLES
    config,             \* Config: queue, max_queue, drop_sound
    pending_messages,   \* deque of Message
    new_message_event,  \* asyncio.Event waking the Synthesizer
    next_id,            \* number of Message ids handed out
    drop_sound_calls,   \* calls of play_drop_sound so far
    evictions,          \* messages evicted from pending_messages so far
    pulled,             \* messages handed to the TTS collaborator, in order
    last_op             \* the last Scheduler operation and the buffer before it

schedVars == <<config, pending_messages, new_message_event, next_id,
               drop_sound_calls, evictions, pulled, last_op>>

VARIABLES
    player,             \* get_audio_player() finds an executable
    request_queue,      \* asyncio.Queue of (text, timestamp)
    ready_queue,        \* asyncio.Queue of generated batches
    shutdown_event,     \* asyncio.Event set on shutdown
    next_ts,            \* requests accepted so far (stands for time.time())
    gen_pc,             \* await point of generation_worker
    gen_requests,       \* requests collected by generation_worker
    gen_idx,            \* index of the request in the executor
    generated,          \* audio generated for the current collection
    play_pc,            \* await point of playback_worker
    generated_batch,    \* batch taken from ready_queue
    play_idx,           \* index in generated_batch of the item in hand
    chime_ctx,          \* caller of play_transition_sound
    current_process,    \* global current_process
    children,           \* child processes that are running
    next_pid,           \* processes started so far
    play_elapsed,       \* poll ticks since the utterance's Popen
    events,             \* what the host heard: launches, exits, terminations
    conn,               \* the last connection: bytes offered, answer, outcome
    admitted,           \* timestamps put in request_queue, in order
    tts_log,            \* generate_audio calls in call order, with results
    tts_inflight,       \* generate_audio calls that have not returned
    files,              \* temporary WAV files on disk
    unlinks,            \* the files os.unlink was called on, in call order
    next_file,          \* temporary files created so far
    pw_audio_file,      \* audio_file of playback_worker
    chime_file,         \* audio_file of play_transition_sound
    returncode,         \* current_process.returncode once it ended by itself
    cancel_left         \* current_process as cancel_current_audio left it

monoVars == <<player, request_queue, ready_queue, shutdown_event, next_ts,
              gen_pc, gen_requests, gen_idx, generated, play_pc,
              generated_batch, play_idx, chime_ctx, current_process,
              children, next_pid, play_elapsed, events, conn, admitted,
              tts_log, tts_inflight, files, unlinks, next_file, pw_audio_file,
              chime_file, returncode, cancel_left>>

VARIABLES
    ready_audio,        \* deque of ReadyAudio awaiting playback
    play_start_time,    \* AudioPlayer.play_start_time
    current_audio_file, \* AudioPlayer._current_audio_file
    chime_proc,         \* proc of AudioPlayer.play_chime
    chime_ticks         \* elapsed of AudioPlayer.play_chime, in ticks

pkVars == <<ready_audio, play_start_time, current_audio_file, chime_proc,
            chime_ticks>>

VARIABLES
    platform,           \* sys.platform
    on_path,            \* the programs that are on $PATH
    has_which,          \* whether `which` itself can be executed
    called,             \* the functions that have been called
    got_player,         \* what get_player returned
    got_audio_player,   \* what get_audio_player returned
    sample_rate,        \* sample rate the sounds are generated at
    chime,              \* len() of the array generate_chime returned
    drop,               \* len() of the array generate_drop_tone returned
    groq_api_key,       \* SummarizerConfig.groq_api_key
    http_requests,      \* requests the httpx client has sent, in order
    summary_type,       \* summary_type of the request given to summarize
    summarize_out,      \* how summarize ended, "await" while it waits
    health_out          \* what health_check returned, "await" while it waits

fnVars == <<platform, on_path, has_which, called, got_player,
            got_audio_player, sample_rate, chime, drop, groq_api_key,
            http_requests, summary_type, summarize_out, health_out>>

\* the part of it that belongs to GroqSummarizer
groqVars == <<groq_api_key, http_requests, summary_type, summarize_out,
              health_out>>

VARIABLES
    returned            \* files stop and check_finished gave back, in order

apVars == <<returned>>

vars == <<schedVars, monoVars, pkVars, fnVars, apVars>>

\* ------------------------------------------------------------- helpers
Message(id, text) == [id |-> id, text |-> text]

RECURSIVE DropFront(_, _)
DropFront(q, n) == IF n <= 0 \/ q = <<>> THEN q ELSE DropFront(Tail(q), n - 1)

Last(q) == q[Len(q)]

Ids(q) == [i \in 1..Len(q) |-> q[i].id]

\* sequences of n messages with ids 1..n
RECURSIVE Preloads(_)
Preloads(n) ==
    IF n = 0 THEN {<<>>}
    ELSE {Append(q, Message(n, t)) : q \in Preloads(n - 1), t \in Texts}

\* ------------------------------------------- Scheduler (spec.md 4.2)
\* queue mode: the messages that stay when one more is admitted
EvictForQueue_OffByOne(q, max) ==
    IF Len(q) > max THEN DropFront(q, Len(q) - max) ELSE q

EvictForQueue_DropsNewest(q, max) ==
    IF Len(q) >= max THEN SubSeq(q, 1, max - 1) ELSE q

EvictForQueue(q, max) ==
    IF Len(q) >= max THEN DropFront(q, Len(q) - max + 1) ELSE q

\* latest-wins mode: every pending message is evicted
EvictForLatest_KeepsOne(q) ==
    IF Len(q) >= 2 THEN <<Last(q)>> ELSE <<>>

EvictForLatest(q) == <<>>

\* play_drop_sound is called once per evicted message when enabled
DropSoundCalls_OncePerAdd(n, enabled) ==
    IF enabled /\ n > 0 THEN 1 ELSE 0

DropSoundCalls(n, enabled) ==
    IF enabled THEN n ELSE 0

add_message(text) ==
    /\ next_id < MaxMsgs
    /\ LET msg  == Message(next_id + 1, text)
           keep == IF config.queue
                   THEN EvictForQueue(pending_messages, config.max_queue)
                   ELSE EvictForLatest(pending_messages)
           n    == Len(pending_messages) - Len(keep)
       IN  /\ pending_messages' = Append(keep, msg)
           /\ evictions' = evictions + n
           /\ drop_sound_calls' =
                  drop_sound_calls + DropSoundCalls(n, config.drop_sound)
           /\ last_op' = [kind |-> "add", id |-> msg.id,
                          pre |-> Ids(pending_messages)]
    /\ next_id' = next_id + 1
    /\ new_message_event' = TRUE
    /\ UNCHANGED <<config, pulled>>

\* messages a pull discards before it takes one: none in queue mode, all
\* but the newest in latest-wins mode
PullEvictions_None(q, queue) == 0

PullEvictions(q, queue) == IF queue THEN 0 ELSE Len(q) - 1

\* Synthesizer step 2: remove one Message according to dispatch policy
pull_message ==
    /\ pending_messages # <<>>
    /\ LET n == PullEvictions(pending_messages, config.queue)
           q == DropFront(pending_messages, n)
       IN  /\ pulled' = Append(pulled, Head(q).id)
           /\ pending_messages' = Tail(q)
           /\ evictions' = evictions + n
           /\ drop_sound_calls' =
                  drop_sound_calls + DropSoundCalls(n, config.drop_sound)
           /\ last_op' = [kind |-> "pull", id |-> Head(q).id,
                          pre |-> Ids(pending_messages)]
    /\ new_message_event' = FALSE
    /\ UNCHANGED <<config, next_id>>

NoProc == [pid |-> 0, kind |-> "none", id |-> 0]

NoFile == [n |-> 0, kind |-> "none", id |-> 0]

\* the monolithic server right after run_server created its two workers
MonoIdle ==
    /\ request_queue = <<>>
    /\ ready_queue = <<>>
    /\ shutdown_event = FALSE
    /\ next_ts = 0
    /\ gen_pc = "get"
    /\ gen_requests = <<>>
    /\ gen_idx = 0
    /\ generated = <<>>
    /\ play_pc = "get"
    /\ generated_batch = <<>>
    /\ play_idx = 0
    /\ chime_ctx = "none"
    /\ current_process = NoProc
    /\ children = {}
    /\ next_pid = 0
    /\ play_elapsed = 0
    /\ events = <<>>
    /\ conn = [payload |-> <<>>, resp |-> "none", put |-> FALSE,
               text |-> <<>>, busy |-> FALSE]
    /\ admitted = <<>>
    /\ tts_log = <<>>
    /\ tts_inflight = {}
    /\ files = {}
    /\ unlinks = <<>>
    /\ next_file = 0
    /\ pw_audio_file = NoFile
    /\ chime_file = NoFile
    /\ returncode = "None"
    /\ cancel_left = NoProc

\* the AudioPlayer after __init__ and an empty ReadyBuffer
PkIdle ==
    /\ ready_audio = <<>>
    /\ play_start_time = "None"
    /\ current_audio_file = 0
    /\ chime_proc = NoProc
    /\ chime_ticks = 0
    /\ returned = <<>>

\* sample_rate: int = 24000
DefaultRate == 24000

\* a GroqSummarizer that has not been called
GroqIdle ==
    /\ http_requests = <<>>
    /\ summary_type = "None"
    /\ summarize_out = "unset"
    /\ health_out = "unset"

\* None as a player command
NoPlayer == <<>>

FnIdle ==
    /\ platform = "linux"
    /\ on_path = {}
    /\ has_which = TRUE
    /\ called = {}
    /\ got_player = NoPlayer
    /\ got_audio_player = NoPlayer
    /\ sample_rate = DefaultRate
    /\ chime = 0
    /\ drop = 0
    /\ groq_api_key = "None"
    /\ GroqIdle

\* the Scheduler with nothing admitted
SchedIdle ==
    /\ pending_messages = <<>>
    /\ new_message_event = FALSE
    /\ next_id = 0
    /\ drop_sound_calls = 0
    /\ evictions = 0
    /\ pulled = <<>>
    /\ last_op = [kind |-> "none", id |-> 0, pre |-> <<>>]

SchedInit ==
    /\ config \in [queue : BOOLEAN, max_queue : {MAX_QUEUE},
                   drop_sound : BOOLEAN, interrupt : {TRUE}]
    /\ \E n \in 0..MaxPreload :
           /\ n <= config.max_queue
           /\ pending_messages \in Preloads(n)
    /\ next_id = Len(pending_messages)
    /\ new_message_event = FALSE
    /\ drop_sound_calls = 0
    /\ evictions = 0
    /\ pulled = <<>>
    /\ last_op = [kind |-> "none", id |-> 0, pre |-> <<>>]
    /\ player = TRUE
    /\ MonoIdle
    /\ PkIdle
    /\ FnIdle

SchedNext ==
    \/ \E text \in Texts : add_message(text) /\ UNCHANGED <<monoVars, pkVars, fnVars, apVars>>
    \/ pull_message /\ UNCHANGED <<monoVars, pkVars, fnVars, apVars>>

SpecSched == SchedInit /\ [][SchedNext]_vars

\* ------------------------------------- monolith: src/kokoro-server.py
\* connections accepted in one run
MaxReqs == 3
\* MIN_DURATION in poll ticks (spec.md 8: 0.1 s)
MinDurationTicks == 2
\* PLAYER_STARTUP_DELAY + SNIPPET_DURATION in poll ticks (0.95 s)
SnippetTicks == 19

TtsResults == {"ok", "none", "raise"}

\* Popen.returncode of a child that ended by itself: success or a crash
ExitStatuses == {"0", "1"}

Ev(kind, id, elapsed, ready) ==
    [kind |-> kind, id |-> id, elapsed |-> elapsed, ready |-> ready]

Running(p) == p # NoProc /\ p \in children

\* synthesized audio that has not started playing: the batches waiting in
\* ready_queue and the rest of the batch in hand
ReadyWaiting(rq, batch, idx) ==
    Len(rq) + (IF idx < Len(batch) THEN Len(batch) - idx ELSE 0)

\* proc.terminate() followed by wait(timeout=0.1) / kill()
Terminate_Forgotten(ch, p) == ch

Terminate(ch, p) == ch \ {p}

\* line 147: if check_ready_queue and not ready_queue.empty()
InterruptDue_OnRequest(check_ready_queue, rq) ==
    check_ready_queue /\ (rq # <<>> \/ request_queue # <<>> \/ gen_pc = "tts")

InterruptDue_Always(check_ready_queue, rq) == check_ready_queue

InterruptDue(check_ready_queue, rq) ==
    check_ready_queue /\ rq # <<>>

\* line 317: if interrupted: await play_transition_sound()
ChimeAfterInterrupt_Always(interrupted) == TRUE

ChimeAfterInterrupt_Never(interrupted) == FALSE

ChimeAfterInterrupt(interrupted) == interrupted

\* os.unlink(audio_file)
Unlink_Forgets(fs, f) == fs

Unlink(fs, f) == fs \ {f}

\* line 161: finally: current_process = None
ClearProcess_Keeps(p) == p

ClearProcess(p) == NoProc

\* lines 125-129: player = get_audio_player(); if not player: return False
HasPlayer_Ignored(found) == TRUE

HasPlayer(found) == found

\* The player's local state as a record, so that the code between two awaits
\* is one step.
PlayerState ==
    [pc |-> play_pc, batch |-> generated_batch, idx |-> play_idx,
     ctx |-> chime_ctx, cur |-> current_process, ch |-> children,
     pid |-> next_pid, el |-> play_elapsed, ev |-> events,
     fs |-> files, ul |-> unlinks, nf |-> next_file, af |-> pw_audio_file,
     cf |-> chime_file, rc |-> returncode, cl |-> cancel_left]

SetPlayerState(ps) ==
    /\ play_pc' = ps.pc
    /\ generated_batch' = ps.batch
    /\ play_idx' = ps.idx
    /\ chime_ctx' = ps.ctx
    /\ current_process' = ps.cur
    /\ children' = ps.ch
    /\ next_pid' = ps.pid
    /\ play_elapsed' = ps.el
    /\ events' = ps.ev
    /\ files' = ps.fs
    /\ unlinks' = ps.ul
    /\ next_file' = ps.nf
    /\ pw_audio_file' = ps.af
    /\ chime_file' = ps.cf
    /\ returncode' = IF ps.cur = NoProc THEN "None" ELSE ps.rc
    /\ cancel_left' = ps.cl

\* save_audio: the audio is written to a fresh temporary file
save_audio(ps, kind, id) ==
    LET f == [n |-> ps.nf + 1, kind |-> kind, id |-> id]
    IN  IF kind = "chime"
        THEN [ps EXCEPT !.fs = @ \cup {f}, !.nf = @ + 1, !.cf = f]
        ELSE [ps EXCEPT !.fs = @ \cup {f}, !.nf = @ + 1, !.af = f]

\* playback_worker's finally: os.unlink(audio_file) (lines 301-305, 319-323)
UnlinkAudio(ps) ==
    IF ps.af = NoFile THEN ps
    ELSE [ps EXCEPT !.fs = Unlink(@, ps.af), !.ul = Append(@, ps.af),
                    !.af = NoFile]

\* play_transition_sound's finally: os.unlink(audio_file) (lines 186-190)
UnlinkChime(ps) ==
    IF ps.cf = NoFile THEN ps
    ELSE [ps EXCEPT !.fs = Unlink(@, ps.cf), !.ul = Append(@, ps.cf),
                    !.cf = NoFile]

\* back to the top of playback_worker's loop, through the finally that
\* unlinks the utterance's file
ToGet(ps) ==
    [UnlinkAudio(ps) EXCEPT !.pc = "get", !.batch = <<>>, !.idx = 0,
                            !.ctx = "none", !.cur = ClearProcess(ps.cur),
                            !.el = 0]

\* play_transition_sound: the chime is generated and saved, then
\* play_audio_file(chime, max_duration=0.2) up to its sleep; without a
\* player play_audio_file returns at once and the file is unlinked
BeginChime(ctx, ps) ==
    LET s == save_audio(ps, "chime", 0)
    IN  IF HasPlayer(player)
        THEN LET p == [pid |-> s.pid + 1, kind |-> "chime", id |-> 0]
             IN  [s EXCEPT !.pc = "chime_sleep", !.ctx = ctx, !.cur = p,
                           !.rc = "None",
                           !.ch = s.ch \cup {p}, !.pid = s.pid + 1,
                           !.ev = Append(s.ev, Ev("chime_start", 0, 0, 0))]
        ELSE IF ctx = "snippet"
             THEN [UnlinkChime(s) EXCEPT !.pc = "gap", !.ctx = "none",
                                         !.cur = NoProc]
             ELSE ToGet(UnlinkChime(s))

\* lines 295-307: snippet i of the batch is saved and played up to the sleep
\* of play_audio_file
BeginSnippet(i, ps) ==
    LET s == save_audio([ps EXCEPT !.idx = i], "utt", ps.batch[i].ts)
    IN  IF HasPlayer(player)
        THEN LET p == [pid |-> s.pid + 1, kind |-> "utt",
                       id |-> s.batch[i].ts]
             IN  [s EXCEPT !.pc = "snippet_sleep", !.cur = p, !.rc = "None",
                           !.ch = s.ch \cup {p}, !.pid = s.pid + 1, !.el = 0,
                           !.ev = Append(s.ev, Ev("launch", p.id, 0, 0))]
        ELSE BeginChime("snippet", UnlinkAudio(s))

\* what play_audio_file does when the ready queue is found non-empty
\* (lines 148-154, 161), and playback_worker after it (lines 317-318); the
\* utterance's file stays until the chime is over
Interrupt(rq, ps) ==
    LET t == [ps EXCEPT !.ch = Terminate(ps.ch, ps.cur),
                        !.cur = ClearProcess(ps.cur),
                        !.ev = Append(ps.ev,
                                  Ev("term_ready", ps.cur.id, ps.el,
                                     ReadyWaiting(rq, ps.batch, ps.idx)))]
    IN  IF ChimeAfterInterrupt(TRUE) THEN BeginChime("interrupt", t)
        ELSE ToGet(t)

\* lines 311-316: the last item of the batch is saved and played, up to the
\* first sleep of the polling loop of play_audio_file
BeginFinal(rq, ps) ==
    LET i == Len(ps.batch)
        s == save_audio(ps, "utt", ps.batch[i].ts)
    IN  IF HasPlayer(player)
        THEN LET p == [pid |-> s.pid + 1, kind |-> "utt",
                       id |-> s.batch[i].ts]
                 l == [s EXCEPT !.pc = "playing", !.idx = i, !.cur = p,
                                !.rc = "None",
                                !.ch = s.ch \cup {p}, !.pid = s.pid + 1,
                                !.el = 0,
                                !.ev = Append(s.ev, Ev("launch", p.id, 0, 0))]
             IN  IF InterruptDue(TRUE, rq) THEN Interrupt(rq, l) ELSE l
        ELSE ToGet(s)

BeginItem_LastOnly(i, rq, ps) == BeginFinal(rq, ps)

BeginItem(i, rq, ps) ==
    IF i < Len(ps.batch) THEN BeginSnippet(i, ps) ELSE BeginFinal(rq, ps)

\* cancel_current_audio: a process that is set and still running is
\* terminated and the handle cleared; otherwise nothing is touched
cancel_current_audio(ps) ==
    IF ps.cur # NoProc /\ ps.cur \in ps.ch
    THEN [ps EXCEPT !.ch = Terminate(ps.ch, ps.cur),
                    !.ev = Append(ps.ev, Ev("term_shutdown", ps.cur.id,
                                            ps.el, 0)),
                    !.cur = NoProc]
    ELSE ps

\* the tasks are cancelled at their await: play_audio_file terminates the
\* child (lines 156-161) and the finally blocks unlink the files
Cancelled_NoFinally(ps) ==
    [ps EXCEPT !.pc = "done", !.batch = <<>>, !.idx = 0, !.ctx = "none",
               !.cur = NoProc, !.el = 0,
               !.ch = IF Running(ps.cur) THEN Terminate(ps.ch, ps.cur)
                      ELSE ps.ch]

Cancelled(ps) ==
    LET t == cancel_current_audio(ps)
    IN  [ToGet(UnlinkChime(t)) EXCEPT !.pc = "done", !.cl = t.cur]

\* A worker parked in queue.get() whose queue holds an item is resumed by the
\* event loop before the timer of any sleeping task can expire and before the
\* executor can deliver a result (lines 235-238, 285-288).
GetIsReady ==
    \/ play_pc = "get" /\ ready_queue # <<>>
    \/ gen_pc = "get" /\ request_queue # <<>>

\* ---- bytes of a connection, one string per byte
ping == <<"p", "i", "n", "g">>

\* the bytes that bytes.strip() and str.strip() remove
Whitespace == {" ", "\n"}

\* a byte that is not valid UTF-8 at its place (written "#")
Invalid == {"#"}

RECURSIVE lstrip(_)
lstrip(b) ==
    IF b # <<>> /\ Head(b) \in Whitespace THEN lstrip(Tail(b)) ELSE b

RECURSIVE rstrip(_)
rstrip(b) ==
    IF b # <<>> /\ b[Len(b)] \in Whitespace
    THEN rstrip(SubSeq(b, 1, Len(b) - 1)) ELSE b

strip(b) == rstrip(lstrip(b))

\* data.decode('utf-8', errors='ignore'): invalid bytes are left out
decode(b) == SelectSeq(b, LAMBDA c : c \notin Invalid)

\* a connection as the server meets it: the results of the successive
\* reader.read(4096) calls, then end of stream or the 0.3 s timeout
Connection(chunks, end) == [chunks |-> chunks, end |-> end]

Conns ==
    { Connection(<<ping>>, "eof"),
      Connection(<< <<" ">> \o ping \o <<"\n">> >>, "eof"),
      Connection(<< <<"p", "i">>, <<"n", "g">> >>, "eof"),
      Connection(<< ping, <<"x">> >>, "eof"),
      Connection(<< ping \o <<"x">> >>, "eof"),
      Connection(<< <<"#">> \o ping >>, "eof"),
      Connection(<< <<" ", "\n">> >>, "eof"),
      Connection(<<>>, "eof"),
      Connection(<< <<"h", "i">> >>, "eof"),
      Connection(<< <<" ", "h">>, <<"i", "\n">> >>, "eof"),
      Connection(<< <<"h", "i">> >>, "timeout") }

\* all the bytes the client offered on the connection
RECURSIVE Payload(_)
Payload(chunks) ==
    IF chunks = <<>> THEN <<>> ELSE Head(chunks) \o Payload(Tail(chunks))

\* line 203: if data.strip() == b"ping"
IsPing_NoStrip(data) == data = ping

IsPing(data) == strip(data) = ping

\* lines 197-211: the read loop; the ping test runs after every chunk on
\* the bytes accumulated so far, and a hit answers and returns
RECURSIVE read_loop(_, _)
read_loop(data, chunks) ==
    IF chunks = <<>> THEN [data |-> data, pong |-> FALSE]
    ELSE LET d == data \o Head(chunks)
         IN  IF IsPing(d) THEN [data |-> d, pong |-> TRUE]
             ELSE read_loop(d, Tail(chunks))

\* line 223: if text and text != "ping"
ShouldEnqueue_Dedup(text) ==
    /\ text # <<>>
    /\ text # ping
    /\ \A i \in DOMAIN request_queue : request_queue[i].text # text

ShouldEnqueue_AcceptsEmpty(text) == text # ping

ShouldEnqueue(text) == text # <<>> /\ text # ping

\* A worker never holds the event loop: generate_audio runs in the executor
\* (line 261) and the playback loop waits with asyncio.sleep (line 155).
LoopBusy_TtsOnLoop == gen_pc = "tts"

LoopBusy == FALSE

\* handle_client, one connection from accept to close. The handler works on
\* local data until its single put, so it is one step.
handle_client_upto(c, limit) ==
    /\ ~shutdown_event
    /\ ~LoopBusy
    /\ next_ts < limit
    /\ next_ts' = next_ts + 1
    /\ LET r    == read_loop(<<>>, c.chunks)
           text == strip(decode(r.data))
           put  == ~r.pong /\ ShouldEnqueue(text)
       IN  /\ request_queue' =
                  IF put
                  THEN Append(request_queue,
                              [text |-> text, ts |-> next_ts + 1])
                  ELSE request_queue
           /\ admitted' = IF put THEN Append(admitted, next_ts + 1)
                          ELSE admitted
           /\ conn' = [payload |-> Payload(c.chunks),
                       resp |-> IF r.pong THEN "pong" ELSE "none",
                       put |-> put,
                       text |-> IF r.pong THEN <<>> ELSE text,
                       busy |-> gen_pc = "tts" /\ play_pc = "playing"]
    /\ UNCHANGED <<player, ready_queue, shutdown_event, gen_pc, gen_requests,
                   gen_idx, generated, play_pc, generated_batch, play_idx,
                   chime_ctx, current_process, children, next_pid,
                   play_elapsed, events, tts_log, tts_inflight>>
    /\ UNCHANGED <<files, unlinks, next_file, pw_audio_file, chime_file,
                   returncode, cancel_left>>

handle_client(c) == handle_client_upto(c, MaxReqs)

\* lines 246-253: the first request, then what get_nowait finds, in order
Collected_NewestFirst(first, queued) == queued \o first

Collected_FirstOnly(first, queued) == first

Collected(first, queued) == first \o queued

\* line 261: one generate_audio call is handed to the executor and awaited
Submitted_Gather(reqs, idx) == {reqs[k].ts : k \in idx..Len(reqs)}

Submitted(reqs, idx) == {reqs[idx].ts}

\* generation_worker, lines 235-243: a request arrives, the worker sleeps
\* RAPID_REQUEST_WINDOW
gen_get_Missed ==
    /\ gen_pc = "get"
    /\ Len(request_queue) > 1
    /\ gen_requests' = <<Head(request_queue)>>
    /\ request_queue' = Tail(request_queue)
    /\ gen_pc' = "window"
    /\ UNCHANGED <<player, ready_queue, shutdown_event, next_ts, gen_idx,
                   generated, play_pc, generated_batch, play_idx, chime_ctx,
                   current_process, children, next_pid, play_elapsed, events>>
    /\ UNCHANGED <<conn, admitted, tts_log, tts_inflight>>
    /\ UNCHANGED <<files, unlinks, next_file, pw_audio_file, chime_file,
                   returncode, cancel_left>>

gen_get ==
    /\ gen_pc = "get"
    /\ request_queue # <<>>
    /\ gen_requests' = <<Head(request_queue)>>
    /\ request_queue' = Tail(request_queue)
    /\ gen_pc' = "window"
    /\ UNCHANGED <<player, ready_queue, shutdown_event, next_ts, gen_idx,
                   generated, play_pc, generated_batch, play_idx, chime_ctx,
                   current_process, children, next_pid, play_elapsed, events>>
    /\ UNCHANGED <<conn, admitted, tts_log, tts_inflight>>
    /\ UNCHANGED <<files, unlinks, next_file, pw_audio_file, chime_file,
                   returncode, cancel_left>>

\* lines 246-261: collect what is queued, hand the first request to the
\* executor
gen_collect ==
    /\ gen_pc = "window"
    /\ ~GetIsReady
    /\ LET reqs == Collected(gen_requests, request_queue)
       IN  /\ gen_requests' = reqs
           /\ tts_inflight' = tts_inflight \cup Submitted(reqs, 1)
           /\ tts_log' = Append(tts_log, [ts |-> reqs[1].ts, r |-> "pending"])
    /\ request_queue' = <<>>
    /\ generated' = <<>>
    /\ gen_idx' = 1
    /\ gen_pc' = "tts"
    /\ UNCHANGED <<player, ready_queue, shutdown_event, next_ts, play_pc,
                   generated_batch, play_idx, chime_ctx, current_process,
                   children, next_pid, play_elapsed, events>>
    /\ UNCHANGED <<conn, admitted>>
    /\ UNCHANGED <<files, unlinks, next_file, pw_audio_file, chime_file,
                   returncode, cancel_left>>

\* lines 261-274: the executor returns; next request or ready_queue.put
gen_tts_done(r) ==
    /\ gen_pc = "tts"
    /\ ~GetIsReady
    /\ LET g    == IF r = "ok" THEN Append(generated, gen_requests[gen_idx])
                   ELSE generated
           log  == [tts_log EXCEPT ![Len(tts_log)].r = r]
           rest == tts_inflight \ {gen_requests[gen_idx].ts}
       IN  IF r = "raise"
           THEN /\ gen_pc' = "get"
                /\ gen_requests' = <<>>
                /\ gen_idx' = 0
                /\ generated' = <<>>
                /\ tts_log' = log
                /\ tts_inflight' = rest
                /\ UNCHANGED ready_queue
           ELSE IF gen_idx < Len(gen_requests)
           THEN /\ gen_idx' = gen_idx + 1
                /\ generated' = g
                /\ tts_log' = Append(log, [ts |-> gen_requests[gen_idx + 1].ts,
                                           r |-> "pending"])
                /\ tts_inflight' =
                       rest \cup Submitted(gen_requests, gen_idx + 1)
                /\ UNCHANGED <<gen_pc, gen_requests, ready_queue>>
           ELSE /\ ready_queue' = IF g # <<>> THEN Append(ready_queue, g)
                                  ELSE ready_queue
                /\ gen_pc' = "get"
                /\ gen_requests' = <<>>
                /\ gen_idx' = 0
                /\ generated' = <<>>
                /\ tts_log' = log
                /\ tts_inflight' = rest
    /\ UNCHANGED <<player, request_queue, shutdown_event, next_ts, play_pc,
                   generated_batch, play_idx, chime_ctx, current_process,
                   children, next_pid, play_elapsed, events, conn, admitted>>
    /\ UNCHANGED <<files, unlinks, next_file, pw_audio_file, chime_file,
                   returncode, cancel_left>>

\* playback_worker, lines 285-316: a batch is taken and its first item starts
play_get ==
    /\ play_pc = "get"
    /\ ready_queue # <<>>
    /\ ready_queue' = Tail(ready_queue)
    /\ SetPlayerState(BeginItem(1, Tail(ready_queue),
                                [PlayerState EXCEPT !.batch = Head(ready_queue)]))
    /\ UNCHANGED <<player, request_queue, shutdown_event, next_ts, gen_pc,
                   gen_requests, gen_idx, generated>>
    /\ UNCHANGED <<conn, admitted, tts_log, tts_inflight>>

\* play_audio_file lines 137-143 and 161, then play_transition_sound
play_snippet_done ==
    /\ play_pc = "snippet_sleep"
    /\ ~GetIsReady
    /\ LET ps == PlayerState
           t  == IF Running(ps.cur)
                 THEN [ps EXCEPT !.ch = Terminate(ps.ch, ps.cur),
                                 !.ev = Append(ps.ev,
                                          Ev("term_snippet", ps.cur.id,
                                             SnippetTicks,
                                             ReadyWaiting(ready_queue, ps.batch,
                                                          ps.idx)))]
                 ELSE ps
       IN  SetPlayerState(
               BeginChime("snippet",
                          UnlinkAudio([t EXCEPT
                                          !.cur = ClearProcess(t.cur)])))
    /\ UNCHANGED <<player, request_queue, ready_queue, shutdown_event, next_ts,
                   gen_pc, gen_requests, gen_idx, generated>>
    /\ UNCHANGED <<conn, admitted, tts_log, tts_inflight>>

\* the chime's play_audio_file returns (lines 137-143, 161): after a snippet
\* the worker sleeps 50 ms, after an interrupt it is back at the loop top
play_chime_done ==
    /\ play_pc = "chime_sleep"
    /\ ~GetIsReady
    /\ LET ps == PlayerState
           t  == IF Running(ps.cur)
                 THEN [ps EXCEPT !.ch = Terminate(ps.ch, ps.cur),
                                 !.ev = Append(ps.ev, Ev("chime_end", 0, 0, 0))]
                 ELSE ps
           u  == UnlinkChime(t)
       IN  SetPlayerState(
               IF ps.ctx = "snippet"
               THEN [u EXCEPT !.pc = "gap", !.ctx = "none", !.cur = NoProc]
               ELSE ToGet(u))
    /\ UNCHANGED <<player, request_queue, ready_queue, shutdown_event, next_ts,
                   gen_pc, gen_requests, gen_idx, generated>>
    /\ UNCHANGED <<conn, admitted, tts_log, tts_inflight>>

\* line 308 returns: next snippet or the last item
play_gap_done ==
    /\ play_pc = "gap"
    /\ ~GetIsReady
    /\ SetPlayerState(BeginItem(play_idx + 1, ready_queue, PlayerState))
    /\ UNCHANGED <<player, request_queue, ready_queue, shutdown_event, next_ts,
                   gen_pc, gen_requests, gen_idx, generated>>
    /\ UNCHANGED <<conn, admitted, tts_log, tts_inflight>>

\* one turn of the polling loop of play_audio_file, lines 145-155
play_poll ==
    /\ play_pc = "playing"
    /\ ~GetIsReady
    /\ LET ps == [PlayerState EXCEPT
                     !.el = IF play_elapsed < MinDurationTicks
                            THEN play_elapsed + 1 ELSE play_elapsed]
       IN  SetPlayerState(
               IF ~Running(ps.cur)
               THEN IF ChimeAfterInterrupt(FALSE)
                    THEN BeginChime("interrupt",
                                    [ps EXCEPT !.cur = ClearProcess(ps.cur)])
                    ELSE ToGet(ps)
               ELSE IF InterruptDue(TRUE, ready_queue)
                    THEN Interrupt(ready_queue, ps)
                    ELSE ps)
    /\ UNCHANGED <<player, request_queue, ready_queue, shutdown_event, next_ts,
                   gen_pc, gen_requests, gen_idx, generated>>
    /\ UNCHANGED <<conn, admitted, tts_log, tts_inflight>>

\* a running child process ends by itself, with any exit status
child_exit(status) ==
    /\ \E p \in children :
           /\ children' = children \ {p}
           /\ events' = Append(events,
                               IF p.kind = "chime" THEN Ev("chime_end", 0, 0, 0)
                               ELSE Ev("exit", p.id, 0, 0))
    /\ returncode' = status
    /\ UNCHANGED <<player, request_queue, ready_queue, shutdown_event, next_ts,
                   gen_pc, gen_requests, gen_idx, generated, play_pc,
                   generated_batch, play_idx, chime_ctx, current_process,
                   next_pid, play_elapsed>>
    /\ UNCHANGED <<conn, admitted, tts_log, tts_inflight>>
    /\ UNCHANGED <<files, unlinks, next_file, pw_audio_file, chime_file,
                   cancel_left>>

\* SIGINT/SIGTERM: signal_handler calls cancel_current_audio, the workers
\* are cancelled (lines 156-161, 269, 326, 353-355)
shutdown ==
    /\ ~shutdown_event
    /\ shutdown_event' = TRUE
    /\ gen_pc' = "done"
    /\ SetPlayerState(Cancelled(PlayerState))
    /\ UNCHANGED <<player, request_queue, ready_queue, next_ts, gen_requests,
                   gen_idx, generated>>
    /\ UNCHANGED <<conn, admitted, tts_log, tts_inflight>>

Init ==
    /\ player \in BOOLEAN
    /\ MonoIdle
    /\ PkIdle
    /\ FnIdle
    /\ SchedIdle
    /\ config = [queue |-> TRUE, max_queue |-> MAX_QUEUE, drop_sound |-> TRUE,
                 interrupt |-> TRUE]

Next ==
    \/ \E c \in Conns : handle_client(c) /\ UNCHANGED <<schedVars, pkVars, fnVars, apVars>>
    \/ gen_get /\ UNCHANGED <<schedVars, pkVars, fnVars, apVars>>
    \/ gen_collect /\ UNCHANGED <<schedVars, pkVars, fnVars, apVars>>
    \/ \E r \in TtsResults : gen_tts_done(r) /\ UNCHANGED <<schedVars, pkVars, fnVars, apVars>>
    \/ play_get /\ UNCHANGED <<schedVars, pkVars, fnVars, apVars>>
    \/ play_snippet_done /\ UNCHANGED <<schedVars, pkVars, fnVars, apVars>>
    \/ play_chime_done /\ UNCHANGED <<schedVars, pkVars, fnVars, apVars>>
    \/ play_gap_done /\ UNCHANGED <<schedVars, pkVars, fnVars, apVars>>
    \/ play_poll /\ UNCHANGED <<schedVars, pkVars, fnVars, apVars>>
    \/ \E st \in ExitStatuses : child_exit(st) /\ UNCHANGED <<schedVars, pkVars, fnVars, apVars>>
    \/ shutdown /\ UNCHANGED <<schedVars, pkVars, fnVars, apVars>>

Spec == Init /\ [][Next]_vars

\* a run of plain text messages: every connection sends "hi" and closes,
\* every generate_audio call returns audio, every child ends with status 0
MaxBacklogReqs == 5

TextConn == Connection(<< <<"h", "i">> >>, "eof")

\* the 50 ms poll of an utterance that a waiting batch will interrupt comes
\* before the 0.3 s RAPID_REQUEST_WINDOW of the worker that put the batch
PollDue == play_pc = "playing" /\ ready_queue # <<>>

BacklogNext ==
    \/ handle_client_upto(TextConn, MaxBacklogReqs)
           /\ UNCHANGED <<schedVars, pkVars, fnVars, apVars>>
    \/ gen_get /\ UNCHANGED <<schedVars, pkVars, fnVars, apVars>>
    \/ gen_collect /\ ~PollDue
           /\ UNCHANGED <<schedVars, pkVars, fnVars, apVars>>
    \/ gen_tts_done("ok") /\ UNCHANGED <<schedVars, pkVars, fnVars, apVars>>
    \/ play_get /\ UNCHANGED <<schedVars, pkVars, fnVars, apVars>>
    \/ play_snippet_done /\ UNCHANGED <<schedVars, pkVars, fnVars, apVars>>
    \/ play_chime_done /\ UNCHANGED <<schedVars, pkVars, fnVars, apVars>>
    \/ play_gap_done /\ UNCHANGED <<schedVars, pkVars, fnVars, apVars>>
    \/ play_poll /\ UNCHANGED <<schedVars, pkVars, fnVars, apVars>>
    \/ child_exit("0") /\ UNCHANGED <<schedVars, pkVars, fnVars, apVars>>
    \/ shutdown /\ UNCHANGED <<schedVars, pkVars, fnVars, apVars>>

SpecBacklog == Init /\ [][BacklogNext]_vars

\* text messages with every synthesis successful, when the event loop keeps
\* running: a worker that can take its next step takes it (queue.get
\* returns, a sleep or the executor call ends), and a player child that
\* runs exits in the end
MaxLiveReqs == 2

other == <<schedVars, pkVars, fnVars, apVars>>

generation_worker ==
    (gen_get \/ gen_collect \/ gen_tts_done("ok")) /\ UNCHANGED other

playback_worker ==
    /\ \/ play_get
       \/ play_snippet_done
       \/ play_chime_done
       \/ play_gap_done
       \/ play_poll
    /\ UNCHANGED other

LiveNext ==
    \/ handle_client_upto(TextConn, MaxLiveReqs) /\ UNCHANGED other
    \/ generation_worker
    \/ playback_worker
    \/ child_exit("0") /\ UNCHANGED other
    \/ shutdown /\ UNCHANGED other

SpecLive ==
    /\ Init
    /\ [][LiveNext]_vars
    /\ WF_vars(generation_worker)
    /\ WF_vars(playback_worker)
    /\ WF_vars(child_exit("0") /\ UNCHANGED other)

\* connections whose read ends with the 0.3 s timeout instead of EOF: the
\* client has sent these bytes and keeps the connection open
TimeoutConns ==
    { Connection(<< <<"h", "i">> >>, "timeout"),
      Connection(<< <<"p", "i">> >>, "timeout"),
      Connection(<< <<" ", "h">>, <<"i">> >>, "timeout"),
      Connection(<< <<"#">> \o ping >>, "timeout"),
      Connection(<< <<"#">> >>, "timeout"),
      Connection(<< <<" ", "\n">> >>, "timeout"),
      Connection(<<>>, "timeout") }

TimeoutNext ==
    \/ \E c \in TimeoutConns :
           handle_client(c) /\ UNCHANGED <<schedVars, pkVars, fnVars, apVars>>
    \/ gen_get /\ UNCHANGED <<schedVars, pkVars, fnVars, apVars>>
    \/ gen_collect /\ UNCHANGED <<schedVars, pkVars, fnVars, apVars>>
    \/ gen_tts_done("ok") /\ UNCHANGED <<schedVars, pkVars, fnVars, apVars>>
    \/ play_get /\ UNCHANGED <<schedVars, pkVars, fnVars, apVars>>
    \/ play_snippet_done /\ UNCHANGED <<schedVars, pkVars, fnVars, apVars>>
    \/ play_chime_done /\ UNCHANGED <<schedVars, pkVars, fnVars, apVars>>
    \/ play_gap_done /\ UNCHANGED <<schedVars, pkVars, fnVars, apVars>>
    \/ play_poll /\ UNCHANGED <<schedVars, pkVars, fnVars, apVars>>
    \/ child_exit("0") /\ UNCHANGED <<schedVars, pkVars, fnVars, apVars>>
    \/ shutdown /\ UNCHANGED <<schedVars, pkVars, fnVars, apVars>>

SpecTimeout == Init /\ [][TimeoutNext]_vars

\* the state of the four-state machine of spec.md 4.4 that an observer of
\* the child processes sees: an utterance or snippet child in hand is
\* PLAYING; the chime and the pause up to the launch of the successor are
\* INTERRUPTING; without a player executable nothing is ever played
PlayerPhase ==
    IF shutdown_event THEN "TERMINAL"
    ELSE IF ~player THEN "IDLE"
    ELSE IF play_pc \in {"playing", "snippet_sleep"} THEN "PLAYING"
    ELSE IF play_pc \in {"chime_sleep", "gap"} THEN "INTERRUPTING"
    ELSE IF /\ play_pc = "get"
            /\ ready_queue # <<>>
            /\ events # <<>>
            /\ Last(events).kind = "chime_end"
    THEN "INTERRUPTING"
    ELSE "IDLE"

\* the arrows of the machine
PhaseArrows ==
    { <<"IDLE", "PLAYING">>, <<"PLAYING", "IDLE">>,
      <<"PLAYING", "INTERRUPTING">>, <<"INTERRUPTING", "PLAYING">>,
      <<"IDLE", "TERMINAL">>, <<"PLAYING", "TERMINAL">>,
      <<"INTERRUPTING", "TERMINAL">> }

\* the event loop runs a task whose queue.get() can return: the worker
\* parked at lines 232-236 is resumed when request_queue holds an item
SpecWake ==
    Spec /\ WF_vars(gen_get /\ UNCHANGED <<schedVars, pkVars, fnVars, apVars>>)

\* ------------------- Player loop (spec.md 4.4) over core/playback.py
\* sleeps of play_chime's waiting loop before it gives up: elapsed is a float
\* sum of 0.05 and ten of them give 0.49999999999999994 < max_wait = 0.5
ChimeMaxTicks == 11

\* the fields of the monolith that the Player loop does not use
monoRest == <<request_queue, ready_queue, gen_pc, gen_requests, gen_idx,
              generated, generated_batch, play_idx, chime_ctx, conn, admitted,
              tts_log, tts_inflight, files, unlinks, next_file, pw_audio_file,
              chime_file, returncode, cancel_left>>

ReadyAudio(id) == [message_id |-> id, audio_file |-> id]

\* the AudioPlayer object and the processes of the host as one record
AP == [cur |-> current_process, start |-> play_start_time,
       file |-> current_audio_file, el |-> play_elapsed,
       ch |-> children, pid |-> next_pid]

SetAP(a) ==
    /\ current_process' = a.cur
    /\ play_start_time' = a.start
    /\ current_audio_file' = a.file
    /\ play_elapsed' = a.el
    /\ children' = a.ch
    /\ next_pid' = a.pid

\* AudioPlayer.play: Popen, play_start_time, _current_audio_file
AudioPlayer_play(a, audio_file) ==
    IF player
    THEN LET p == [pid |-> a.pid + 1, kind |-> "utt", id |-> audio_file]
         IN  [a EXCEPT !.cur = p, !.start = "set", !.file = audio_file,
                       !.el = 0, !.ch = a.ch \cup {p}, !.pid = a.pid + 1]
    ELSE a

\* AudioPlayer.stop: terminate a running process, clear the three fields
AudioPlayer_stop_KeepsFile(a) ==
    [a EXCEPT !.ch = IF a.cur # NoProc /\ a.cur \in a.ch
                     THEN Terminate(a.ch, a.cur) ELSE a.ch,
              !.cur = NoProc, !.start = "None", !.el = 0]

AudioPlayer_stop(a) ==
    [a EXCEPT !.ch = IF a.cur # NoProc /\ a.cur \in a.ch
                     THEN Terminate(a.ch, a.cur) ELSE a.ch,
              !.cur = NoProc, !.start = "None", !.file = 0, !.el = 0]

\* AudioPlayer.check_finished: clear the fields when the process has ended
AudioPlayer_check_finished_KeepsStart(a) ==
    IF a.cur # NoProc /\ a.cur \notin a.ch
    THEN [a EXCEPT !.cur = NoProc, !.file = 0, !.el = 0]
    ELSE a

AudioPlayer_check_finished(a) ==
    IF a.cur # NoProc /\ a.cur \notin a.ch
    THEN [a EXCEPT !.cur = NoProc, !.start = "None", !.file = 0, !.el = 0]
    ELSE a

\* AudioPlayer.play_chime up to the first sleep of its waiting loop
AudioPlayer_play_chime(a) ==
    IF player
    THEN [a EXCEPT !.ch = a.ch \cup {[pid |-> a.pid + 1, kind |-> "chime",
                                      id |-> 0]},
                   !.pid = a.pid + 1]
    ELSE a

\* AudioPlayer.get_elapsed_time, in ticks and saturated at MIN_DURATION
get_elapsed_time(a) == IF a.start = "None" THEN 0 ELSE a.el

\* step 3 of the Player loop: successor waiting, interrupts enabled,
\* MIN_DURATION elapsed
ShouldInterrupt_IgnoresFlag(interrupt, successor, elapsed) ==
    successor /\ elapsed >= MinDurationTicks

ShouldInterrupt(interrupt, successor, elapsed) ==
    interrupt /\ successor /\ elapsed >= MinDurationTicks

\* the Synthesizer pushes a ReadyAudio record
push_ready ==
    /\ ~shutdown_event
    /\ next_ts < MaxReqs
    /\ next_ts' = next_ts + 1
    /\ ready_audio' = Append(ready_audio, ReadyAudio(next_ts + 1))
    /\ UNCHANGED <<player, shutdown_event, play_pc, current_process, children,
                   next_pid, play_elapsed, events, play_start_time,
                   current_audio_file, chime_proc, chime_ticks>>

\* steps 1-2: take the front record and launch the player on its file
pk_get ==
    /\ play_pc = "get"
    /\ ready_audio # <<>>
    /\ ready_audio' = Tail(ready_audio)
    /\ SetAP(AudioPlayer_play(AP, Head(ready_audio).audio_file))
    /\ play_pc' = IF player THEN "supervise" ELSE "get"
    /\ events' = IF player
                 THEN Append(events, Ev("launch", Head(ready_audio).message_id,
                                        0, 0))
                 ELSE events
    /\ UNCHANGED <<player, shutdown_event, next_ts, chime_proc, chime_ticks>>

\* step 3, one 50 ms tick: natural completion (step 4), interrupt with
\* chime, or keep waiting
pk_tick ==
    /\ play_pc = "supervise"
    /\ LET a == [AP EXCEPT !.el = IF play_elapsed < MinDurationTicks
                                  THEN play_elapsed + 1 ELSE play_elapsed]
       IN  IF ~Running(current_process)
           THEN /\ SetAP(AudioPlayer_check_finished(a))
                /\ play_pc' = "get"
                /\ UNCHANGED <<events, chime_proc, chime_ticks>>
           ELSE IF ShouldInterrupt(config.interrupt, ready_audio # <<>>,
                                   get_elapsed_time(a))
           THEN /\ SetAP(AudioPlayer_play_chime(AudioPlayer_stop(a)))
                /\ chime_proc' = [pid |-> next_pid + 1, kind |-> "chime",
                                  id |-> 0]
                /\ chime_ticks' = 0
                /\ play_pc' = "chime_wait"
                /\ events' = events \o
                       <<Ev("term_ready", current_process.id,
                            get_elapsed_time(a), Len(ready_audio)),
                         Ev("chime_start", 0, 0, 0)>>
           ELSE /\ SetAP(a)
                /\ UNCHANGED <<play_pc, events, chime_proc, chime_ticks>>
    /\ UNCHANGED <<player, shutdown_event, next_ts, ready_audio>>

\* AudioPlayer.play_chime, one turn of its waiting loop and its end
pk_chime_tick ==
    /\ play_pc = "chime_wait"
    /\ LET t == chime_ticks + 1
       IN  IF t < ChimeMaxTicks /\ Running(chime_proc)
           THEN /\ chime_ticks' = t
                /\ UNCHANGED <<play_pc, children, events, chime_proc>>
           ELSE /\ chime_ticks' = 0
                /\ chime_proc' = NoProc
                /\ play_pc' = "get"
                /\ children' = IF Running(chime_proc)
                               THEN Terminate(children, chime_proc)
                               ELSE children
                /\ events' = IF Running(chime_proc)
                             THEN Append(events, Ev("chime_end", 0, 0, 0))
                             ELSE events
    /\ UNCHANGED <<player, shutdown_event, next_ts, ready_audio,
                   current_process, next_pid, play_elapsed, play_start_time,
                   current_audio_file>>

\* shutdown: the loop exits and stop() terminates the active child
pk_shutdown ==
    /\ ~shutdown_event
    /\ shutdown_event' = TRUE
    /\ play_pc' = "done"
    /\ SetAP(LET a == AudioPlayer_stop(AP)
             IN  [a EXCEPT !.ch = IF Running(chime_proc)
                                  THEN Terminate(a.ch, chime_proc) ELSE a.ch])
    /\ chime_proc' = NoProc
    /\ chime_ticks' = 0
    /\ events' = IF Running(current_process)
                 THEN Append(events, Ev("term_shutdown", current_process.id,
                                        play_elapsed, 0))
                 ELSE events
    /\ UNCHANGED <<player, next_ts, ready_audio>>

PlayerInit ==
    /\ player \in BOOLEAN
    /\ MonoIdle
    /\ PkIdle
    /\ FnIdle
    /\ SchedIdle
    /\ config \in [queue : {TRUE}, max_queue : {MAX_QUEUE},
                   drop_sound : {TRUE}, interrupt : BOOLEAN]

PlayerNext ==
    \/ push_ready /\ UNCHANGED <<schedVars, monoRest, fnVars, apVars>>
    \/ pk_get /\ UNCHANGED <<schedVars, monoRest, fnVars, apVars>>
    \/ pk_tick /\ UNCHANGED <<schedVars, monoRest, fnVars, apVars>>
    \/ pk_chime_tick /\ UNCHANGED <<schedVars, monoRest, fnVars, apVars>>
    \/ \E st \in ExitStatuses : child_exit(st) /\ UNCHANGED <<schedVars, pkVars, fnVars, apVars>>
    \/ pk_shutdown /\ UNCHANGED <<schedVars, monoRest, fnVars, apVars>>

SpecPlayer == PlayerInit /\ [][PlayerNext]_vars


\* ------------------- AudioPlayer (core/playback.py) called in any order
\* processes the AudioPlayer launches in one run
MaxLaunches == 3

\* None as a path
NoPath == 0

\* what stop returns: the file that was current
stop_returns(a) == a.file

\* what check_finished returns: the file when the process has ended
check_finished_returns(a) ==
    IF a.cur # NoProc /\ a.cur \notin a.ch THEN a.file ELSE NoPath

\* a file handed back for cleanup is written to the log, None is not
Handed(log, call, file) ==
    IF file = NoPath THEN log ELSE Append(log, [call |-> call, file |-> file])

\* play_sound_async: a child that nobody keeps a handle of
play_sound_async_KeepsHandle(a, audio_file) ==
    IF player /\ audio_file # NoPath
    THEN LET p == [pid |-> a.pid + 1, kind |-> "drop", id |-> 0]
         IN  [a EXCEPT !.ch = a.ch \cup {p}, !.pid = a.pid + 1, !.cur = p]
    ELSE a

play_sound_async(a, audio_file) ==
    IF player /\ audio_file # NoPath
    THEN [a EXCEPT !.ch = a.ch \cup {[pid |-> a.pid + 1, kind |-> "drop",
                                      id |-> 0]},
                   !.pid = a.pid + 1]
    ELSE a

\* AudioPlayer.play_drop_sound
AudioPlayer_play_drop_sound(a, drop_file) ==
    IF drop_file # NoPath THEN play_sound_async(a, drop_file) ELSE a

\* play() on a new file; the file is numbered like the process it gets
ap_play ==
    /\ next_pid < MaxLaunches
    /\ SetAP(AudioPlayer_play(AP, next_pid + 1))
    /\ UNCHANGED <<player, shutdown_event, next_ts, ready_audio, play_pc,
                   events, chime_proc, chime_ticks, returned>>

ap_stop ==
    /\ SetAP(AudioPlayer_stop(AP))
    /\ returned' = Handed(returned, "stop", stop_returns(AP))
    /\ UNCHANGED <<player, shutdown_event, next_ts, ready_audio, play_pc,
                   events, chime_proc, chime_ticks>>

ap_check_finished ==
    /\ SetAP(AudioPlayer_check_finished(AP))
    /\ returned' = Handed(returned, "check_finished",
                          check_finished_returns(AP))
    /\ UNCHANGED <<player, shutdown_event, next_ts, ready_audio, play_pc,
                   events, chime_proc, chime_ticks>>

\* play_chime up to the first sleep of its waiting loop, or its return when
\* there is no chime file or no player
ap_play_chime(chime_path) ==
    /\ play_pc = "get"
    /\ next_pid < MaxLaunches
    /\ IF chime_path # NoPath /\ player
       THEN /\ SetAP(AudioPlayer_play_chime(AP))
            /\ chime_proc' = [pid |-> next_pid + 1, kind |-> "chime",
                              id |-> 0]
            /\ chime_ticks' = 0
            /\ play_pc' = "chime_wait"
            /\ events' = Append(events, Ev("chime_start", 0, 0, 0))
       ELSE /\ SetAP(AP)
            /\ UNCHANGED <<chime_proc, chime_ticks, play_pc, events>>
    /\ UNCHANGED <<player, shutdown_event, next_ts, ready_audio, returned>>

ap_play_drop_sound(drop_file) ==
    /\ next_pid < MaxLaunches
    /\ SetAP(AudioPlayer_play_drop_sound(AP, drop_file))
    /\ UNCHANGED <<player, shutdown_event, next_ts, ready_audio, play_pc,
                   events, chime_proc, chime_ticks, returned>>

APInit ==
    /\ player \in BOOLEAN
    /\ MonoIdle
    /\ PkIdle
    /\ FnIdle
    /\ SchedIdle
    /\ config = [queue |-> TRUE, max_queue |-> MAX_QUEUE, drop_sound |-> TRUE,
                 interrupt |-> TRUE]

APNext ==
    \/ ap_play /\ UNCHANGED <<schedVars, monoRest, fnVars>>
    \/ ap_stop /\ UNCHANGED <<schedVars, monoRest, fnVars>>
    \/ ap_check_finished /\ UNCHANGED <<schedVars, monoRest, fnVars>>
    \/ \E f \in {NoPath, 1} :
           ap_play_chime(f) /\ UNCHANGED <<schedVars, monoRest, fnVars>>
    \/ pk_chime_tick /\ UNCHANGED <<schedVars, monoRest, fnVars, apVars>>
    \/ \E f \in {NoPath, 1} :
           ap_play_drop_sound(f) /\ UNCHANGED <<schedVars, monoRest, fnVars>>
    \/ \E st \in ExitStatuses :
           child_exit(st) /\ UNCHANGED <<schedVars, pkVars, fnVars, apVars>>

SpecAP == APInit /\ [][APNext]_vars

\* ------------------------------------------- functions called on their own
Platforms == {"darwin", "linux", "win32"}

Programs == {"mpv", "paplay", "aplay", "afplay"}

\* subprocess.run(["which", name]): the return code, or OSError when `which`
\* cannot be executed
which(name, path, hw) ==
    IF ~hw THEN "OSError" ELSE IF name \in path THEN "0" ELSE "1"

\* the player commands in the order the loop tries them
Candidates_AplayFirst == <<<<"aplay">>, <<"paplay">>, <<"mpv", "--no-terminal">>>>

Candidates == <<<<"mpv", "--no-terminal">>, <<"paplay">>, <<"aplay">>>>

\* the for loop from candidate i on: the first whose `which` returns 0
RECURSIVE FirstFound(_, _, _)
FirstFound(i, path, hw) ==
    IF i > Len(Candidates) THEN NoPlayer
    ELSE IF which(Candidates[i][1], path, hw) = "0" THEN Candidates[i]
    ELSE FirstFound(i + 1, path, hw)

\* core/playback.py get_player
get_player(plat, path, hw) ==
    IF plat = "darwin" THEN <<"afplay">> ELSE FirstFound(1, path, hw)

\* kokoro-server.py get_audio_player
get_audio_player(plat, path, hw) ==
    IF plat = "darwin" THEN <<"afplay">> ELSE FirstFound(1, path, hw)

call_get_player ==
    /\ "get_player" \notin called
    /\ called' = called \cup {"get_player"}
    /\ got_player' = get_player(platform, on_path, has_which)
    /\ UNCHANGED <<platform, on_path, has_which, got_audio_player,
                   sample_rate, chime, drop, groqVars>>

call_get_audio_player ==
    /\ "get_audio_player" \notin called
    /\ called' = called \cup {"get_audio_player"}
    /\ got_audio_player' = get_audio_player(platform, on_path, has_which)
    /\ UNCHANGED <<platform, on_path, has_which, got_player, sample_rate,
                   chime, drop, groqVars>>

\* the sample rates the sounds are generated at
SampleRates == {8000, 16000, 22050, DefaultRate, 44100, 48000}

\* durations of sounds.py in hundredths of a second: a note of the chime,
\* the gap between the notes, the drop tone
NoteDuration == 8

GapDuration == 3

DropDuration == 15

\* int(sample_rate * duration) for a duration in hundredths of a second
Samples(sr, hundredths) == (sr * hundredths) \div 100

\* make_note: np.linspace(0, duration, int(sample_rate * duration), False)
make_note(sr, duration) == Samples(sr, duration)

\* generate_chime: len(np.concatenate([note1, gap, note2])); the fade
\* scales samples in place
generate_chime_OneNote(sr) ==
    make_note(sr, NoteDuration) + Samples(sr, GapDuration)

generate_chime(sr) ==
    make_note(sr, NoteDuration) + Samples(sr, GapDuration)
        + make_note(sr, NoteDuration)

\* generate_drop_tone: len(np.linspace(0, duration, int(...), False))
generate_drop_tone(sr) == Samples(sr, DropDuration)

call_generate_chime ==
    /\ "generate_chime" \notin called
    /\ called' = called \cup {"generate_chime"}
    /\ chime' = generate_chime(sample_rate)
    /\ UNCHANGED <<platform, on_path, has_which, got_player,
                   got_audio_player, sample_rate, drop, groqVars>>

call_generate_drop_tone ==
    /\ "generate_drop_tone" \notin called
    /\ called' = called \cup {"generate_drop_tone"}
    /\ drop' = generate_drop_tone(sample_rate)
    /\ UNCHANGED <<platform, on_path, has_which, got_player,
                   got_audio_player, sample_rate, chime, groqVars>>

FnInit ==
    /\ platform \in Platforms
    /\ on_path \in SUBSET Programs
    /\ has_which \in BOOLEAN
    /\ called = {}
    /\ got_player = NoPlayer
    /\ got_audio_player = NoPlayer
    /\ sample_rate \in SampleRates
    /\ chime = 0
    /\ drop = 0
    /\ groq_api_key = "None"
    /\ GroqIdle
    /\ player = TRUE
    /\ MonoIdle
    /\ PkIdle
    /\ SchedIdle
    /\ config = [queue |-> TRUE, max_queue |-> MAX_QUEUE, drop_sound |-> TRUE,
                 interrupt |-> TRUE]

FnNext ==
    \/ call_get_player /\ UNCHANGED <<schedVars, monoVars, pkVars, apVars>>
    \/ call_get_audio_player /\ UNCHANGED <<schedVars, monoVars, pkVars, apVars>>
    \/ call_generate_chime /\ UNCHANGED <<schedVars, monoVars, pkVars, apVars>>
    \/ call_generate_drop_tone /\ UNCHANGED <<schedVars, monoVars, pkVars, apVars>>

SpecFn == FnInit /\ [][FnNext]_vars


\* ------------------------------------------------ summarizers/groq.py
\* groq_api_key: None, the empty string, a key
Keys == {"None", "", "gsk_a"}

SummaryTypes == {"SHORT_RESPONSE", "LONG_RESPONSE", "PERMISSION_REQUEST"}

\* what the HTTP exchange can give: status 200 with a completion, status
\* 200 with an "error" member, an error status, no connection
Replies == {"200", "200 error", "401", "ConnectError"}

\* `if not self.config.groq_api_key`
KeyMissing_Never(key) == FALSE

KeyMissing(key) == key = "None" \/ key = ""

\* _get_model
get_model(st) == IF st = "LONG_RESPONSE" THEN "large" ELSE "small"

Request(method, url, key, model) ==
    [method |-> method, url |-> url, auth |-> key, model |-> model]

\* summarize up to `await self.client.post(...)`
summarize(st) ==
    /\ summarize_out = "unset"
    /\ summary_type' = st
    /\ IF KeyMissing(groq_api_key)
       THEN /\ summarize_out' = "ValueError: not configured"
            /\ UNCHANGED http_requests
       ELSE /\ summarize_out' = "await"
            /\ http_requests' =
                   Append(http_requests,
                          Request("POST", "chat/completions", groq_api_key,
                                  get_model(st)))
    /\ UNCHANGED <<groq_api_key, health_out>>

\* summarize from the response on
summarize_reply(r) ==
    /\ summarize_out = "await"
    /\ summarize_out' =
           CASE r = "ConnectError" -> "ConnectError"
             [] r = "401" -> "HTTPStatusError"
             [] r = "200 error" -> "ValueError: Groq API error"
             [] OTHER -> "SummaryResult"
    /\ UNCHANGED <<groq_api_key, http_requests, summary_type, health_out>>

\* health_check up to `await self.client.get(...)`
health_check ==
    /\ health_out = "unset"
    /\ IF KeyMissing(groq_api_key)
       THEN /\ health_out' = "False"
            /\ UNCHANGED http_requests
       ELSE /\ health_out' = "await"
            /\ http_requests' =
                   Append(http_requests,
                          Request("GET", "models", groq_api_key, "None"))
    /\ UNCHANGED <<groq_api_key, summary_type, summarize_out>>

\* health_check from the response on
health_check_reply(r) ==
    /\ health_out = "await"
    /\ health_out' = IF r \in {"200", "200 error"} THEN "True" ELSE "False"
    /\ UNCHANGED <<groq_api_key, http_requests, summary_type, summarize_out>>

restFn == <<platform, on_path, has_which, called, got_player,
            got_audio_player, sample_rate, chime, drop>>

GroqInit ==
    /\ groq_api_key \in Keys
    /\ GroqIdle
    /\ platform = "linux"
    /\ on_path = {}
    /\ has_which = TRUE
    /\ called = {}
    /\ got_player = NoPlayer
    /\ got_audio_player = NoPlayer
    /\ sample_rate = DefaultRate
    /\ chime = 0
    /\ drop = 0
    /\ player = TRUE
    /\ MonoIdle
    /\ PkIdle
    /\ SchedIdle
    /\ config = [queue |-> TRUE, max_queue |-> MAX_QUEUE, drop_sound |-> TRUE,
                 interrupt |-> TRUE]

GroqNext ==
    \/ \E st \in SummaryTypes :
           summarize(st) /\ UNCHANGED <<schedVars, monoVars, pkVars, restFn, apVars>>
    \/ \E r \in Replies :
           summarize_reply(r)
               /\ UNCHANGED <<schedVars, monoVars, pkVars, restFn, apVars>>
    \/ health_check /\ UNCHANGED <<schedVars, monoVars, pkVars, restFn, apVars>>
    \/ \E r \in Replies :
           health_check_reply(r)
               /\ UNCHANGED <<schedVars, monoVars, pkVars, restFn, apVars>>

SpecGroq == GroqInit /\ [][GroqNext]_vars

\* ------------------------------------------------------------ claims
\* C1: in queue mode the PendingBuffer never holds more than MAX_QUEUE
\* messages, whatever the interleaving of add_message and Synthesizer pulls.
C1_PendingBounded ==
    config.queue => Len(pending_messages) <= config.max_queue

C1_Witness ==
    /\ config.queue
    /\ last_op.kind = "add"
    /\ Len(last_op.pre) = config.max_queue
    /\ pulled # <<>>
    /\ Len(pending_messages) = config.max_queue

\* C2: in latest-wins mode, right after an add_message the PendingBuffer is
\* exactly the newcomer, also when it held two or more messages before.
C2_LatestWinsSingle ==
    (~config.queue /\ last_op.kind = "add")
        => Ids(pending_messages) = <<last_op.id>>

C2_Witness ==
    /\ ~config.queue
    /\ last_op.kind = "add"
    /\ Len(last_op.pre) >= 2
    /\ Ids(pending_messages) = <<last_op.id>>

\* C3: in queue mode an add_message on a full PendingBuffer evicts the front
\* message and appends the newcomer at the back; the others keep their order.
C3_FrontEviction ==
    (config.queue /\ last_op.kind = "add"
                  /\ Len(last_op.pre) = config.max_queue)
        => Ids(pending_messages) = Append(Tail(last_op.pre), last_op.id)

C3_Witness ==
    /\ config.queue
    /\ last_op.kind = "add"
    /\ Len(last_op.pre) = config.max_queue
    /\ Len(last_op.pre) >= 2
    /\ Last(pending_messages).id = last_op.id
    /\ Head(pending_messages).id = last_op.pre[2]

\* C4: one drop-tone request per evicted message when drop feedback is on,
\* none when it is off (the evictions still happen).
C4_DropPerEviction ==
    drop_sound_calls = IF config.drop_sound THEN evictions ELSE 0

C4_Witness ==
    /\ config.drop_sound
    /\ last_op.kind = "add"
    /\ evictions >= 2
    /\ drop_sound_calls = evictions

\* utterance terminations the Player decides on for the sake of a successor
IsInterrupt(e) == e.kind \in {"term_ready", "term_snippet"}

\* C5: at most one audio-player child started by the Player is running; a
\* child is launched only after the previous one has exited or been
\* terminated.
C5_OneChild ==
    Cardinality(children) <= 1

C5_Witness ==
    /\ \E i \in DOMAIN events : events[i].kind = "term_ready"
    /\ \E i \in DOMAIN events : events[i].kind = "chime_end"
    /\ play_pc = "playing"
    /\ Running(current_process)
    /\ Cardinality(children) = 1

\* C6: no utterance is terminated in favour of a successor before
\* MIN_DURATION has elapsed since its player process was launched.
C6_MinDurationRespected ==
    \A i \in DOMAIN events :
        events[i].kind = "term_ready" => events[i].elapsed >= MinDurationTicks

\* C7: whenever the Player terminates an utterance for a successor, a fully
\* synthesized successor is waiting; a queued request or a synthesis in
\* progress does not terminate the playing utterance.
C7_InterruptNeedsReady ==
    \A i \in DOMAIN events :
        IsInterrupt(events[i]) => events[i].ready >= 1

C7_Witness ==
    /\ \E i \in DOMAIN events :
           events[i].kind = "term_ready" /\ events[i].ready >= 1
    /\ play_pc = "playing"
    /\ Running(current_process)
    /\ play_elapsed >= 1
    /\ gen_pc = "tts"
    /\ ready_queue = <<>>

\* C8: with interrupts disabled a playing utterance is never terminated for
\* a ready successor; it ends by natural exit or by shutdown, and the
\* successor waits in the ReadyBuffer meanwhile.
C8_NoInterruptWhenDisabled ==
    ~config.interrupt =>
        /\ \A i \in DOMAIN events : events[i].kind # "term_ready"
        /\ \A j \in DOMAIN events :
               (events[j].kind = "launch" /\ j > 1)
                   => events[j - 1].kind = "exit"

C8_Witness ==
    /\ ~config.interrupt
    /\ play_pc = "supervise"
    /\ Running(current_process)
    /\ play_elapsed >= MinDurationTicks
    /\ ready_audio # <<>>
    /\ \E i \in DOMAIN events : events[i].kind = "exit"

\* C9: a chime is played between two utterances exactly when the earlier one
\* was ended by an interrupt; after a natural exit no chime is played.
C9_ChimeIffInterrupt ==
    /\ \A j \in DOMAIN events :
           events[j].kind = "chime_start"
               => (j > 1 /\ IsInterrupt(events[j - 1]))
    /\ \A i \in DOMAIN events :
           (IsInterrupt(events[i]) /\ i < Len(events))
               => events[i + 1].kind = "chime_start"

\* C10: on an interrupt the child is terminated, then the chime is played,
\* then the successor is launched, and never before the chime has ended.
C10_TerminateChimeLaunch ==
    /\ \A i \in DOMAIN events :
           IsInterrupt(events[i])
               => (i < Len(events) /\ events[i + 1].kind = "chime_start")
    /\ \A j \in DOMAIN events :
           events[j].kind = "launch"
               => \A i \in 1..(j - 1) :
                      events[i].kind = "chime_start"
                          => \E k \in (i + 1)..(j - 1) :
                                 events[k].kind = "chime_end"

C10_Witness ==
    \E i \in DOMAIN events :
        /\ i + 3 <= Len(events)
        /\ events[i].kind = "term_ready"
        /\ events[i + 1].kind = "chime_start"
        /\ events[i + 2].kind = "chime_end"
        /\ events[i + 3].kind = "launch"
        /\ events[i + 3].id # events[i].id

\* the utterances launched so far, in launch order
Launches ==
    SelectSeq(events, LAMBDA e : e.kind = "launch")

\* C11: utterances start playing in the order their audio was pushed, and
\* utterance N+1 is launched only after the child of utterance N has exited
\* by itself or has been terminated with MIN_DURATION elapsed.
C11_OrderedHandover ==
    /\ \A i, j \in DOMAIN Launches :
           i < j => Launches[i].id < Launches[j].id
    /\ \A i, j \in DOMAIN events :
           (i < j /\ events[i].kind = "launch" /\ events[j].kind = "launch")
               => \E k \in (i + 1)..(j - 1) :
                      /\ events[k].id = events[i].id
                      /\ \/ events[k].kind = "exit"
                         \/ /\ IsInterrupt(events[k])
                            /\ events[k].elapsed >= MinDurationTicks

\* the timestamps of the generate_audio calls, in call order
TtsCalls == [i \in DOMAIN tts_log |-> tts_log[i].ts]

\* C12: the requests are handed to generate_audio in the order of their
\* admission, whatever the interleaving of admissions and collections; while
\* no call has raised, the calls are a prefix of the admissions.
C12_TtsInAdmissionOrder ==
    /\ \A i, j \in DOMAIN tts_log : i < j => tts_log[i].ts < tts_log[j].ts
    /\ \A i \in DOMAIN tts_log :
           \E k \in DOMAIN admitted : admitted[k] = tts_log[i].ts
    /\ (\A i \in DOMAIN tts_log : tts_log[i].r # "raise")
           => /\ Len(tts_log) <= Len(admitted)
              /\ TtsCalls = SubSeq(admitted, 1, Len(tts_log))

C12_Witness ==
    /\ Len(tts_log) = 3
    /\ TtsCalls = admitted
    /\ \A i \in DOMAIN tts_log : tts_log[i].r # "raise"
    /\ Len(gen_requests) = 2
    /\ gen_idx = 2

\* C13: in latest-wins mode a pull hands the most recently admitted message
\* to the TTS collaborator and nothing else; the messages admitted before it
\* are evicted and never synthesized.
C13_LatestWinsPullsNewest ==
    ~config.queue =>
        /\ last_op.kind = "pull" =>
               /\ last_op.id = Last(last_op.pre)
               /\ pending_messages = <<>>
               /\ \A i \in 1..(Len(last_op.pre) - 1) :
                      \A k \in DOMAIN pulled : pulled[k] # last_op.pre[i]
        /\ Len(pulled) + evictions + Len(pending_messages) = next_id

C13_Witness ==
    /\ ~config.queue
    /\ last_op.kind = "pull"
    /\ next_id >= 3
    /\ evictions = next_id - 1
    /\ pulled = <<next_id>>

\* C14: at most one generate_audio call is in flight; the call for a request
\* is made only after the previous call has returned or raised.
C14_OneTtsInFlight ==
    /\ Cardinality(tts_inflight) <= 1
    /\ \A i \in DOMAIN tts_log :
           i < Len(tts_log) => tts_log[i].r # "pending"

C14_Witness ==
    /\ gen_pc = "tts"
    /\ Len(gen_requests) >= 2
    /\ gen_idx = 2
    /\ tts_inflight = {gen_requests[2].ts}
    /\ tts_log[1].r = "raise"
    /\ tts_log[Len(tts_log)].r = "pending"

\* what a connection may change beyond its own record and the clock
Pipeline == <<request_queue, admitted, ready_queue, shutdown_event, gen_pc,
              gen_requests, gen_idx, generated, play_pc, generated_batch,
              play_idx, chime_ctx, current_process, children, next_pid,
              play_elapsed, events, tts_log, tts_inflight>>

\* C15: a connection whose payload is ping, whitespace around it allowed, is
\* answered with pong and changes nothing in the pipeline: the request
\* queue, the ready queue and the player are the same after it as before, in
\* any pipeline state.
C15_PingStateless ==
    [][(next_ts' # next_ts /\ strip(conn'.payload) = ping)
           => (conn'.resp = "pong" /\ UNCHANGED Pipeline)]_vars

C15_Witness ==
    /\ strip(conn.payload) = ping
    /\ conn.payload # ping
    /\ conn.resp = "pong"
    /\ conn.busy
    /\ next_ts = 3

\* C16: a connection is answered with pong exactly when its complete trimmed
\* payload is ping; every other payload that is not blank is admitted as
\* text and gets no answer, however the bytes are split across the reads.
C16_PongIffPing ==
    next_ts > 0 =>
        /\ conn.resp = "pong" <=> strip(conn.payload) = ping
        /\ strip(conn.payload) \notin {<<>>, ping}
               => (conn.put /\ conn.resp = "none")

\* C17: a connection with an empty or whitespace-only payload admits no
\* message: the request queue is unchanged, nothing in the pipeline is woken
\* or sounded, and nothing is answered.
C17_BlankAdmitsNothing ==
    [][(next_ts' # next_ts /\ strip(conn'.payload) = <<>>)
           => (conn'.resp = "none" /\ ~conn'.put /\ UNCHANGED Pipeline)]_vars

C17_Witness ==
    /\ conn.payload = <<" ", "\n">>
    /\ ~conn.put
    /\ conn.resp = "none"
    /\ Len(request_queue) = 2

\* C18: every connection with a payload that is neither blank nor ping
\* admits exactly one message, whose text is the payload decoded as UTF-8
\* with the surrounding whitespace stripped.
C18_OneMessagePerText ==
    (next_ts > 0 /\ strip(conn.payload) \notin {<<>>, ping})
        => /\ conn.put
           /\ conn.text = strip(decode(conn.payload))
           /\ Last(admitted) = next_ts

\* C19: ingress is not held up by the pipeline: in every state before
\* shutdown, also while a synthesis is in flight or an utterance is playing
\* and never ends, a connection can be handled, a ping is answered with pong
\* and a text is admitted.
C19_IngressResponsive ==
    (~shutdown_event /\ next_ts < MaxReqs) =>
        /\ ENABLED (handle_client(Connection(<<ping>>, "eof"))
                        /\ conn'.resp = "pong")
        /\ ENABLED (handle_client(Connection(<< <<"h", "i">> >>, "eof"))
                        /\ Len(request_queue') = Len(request_queue) + 1)

C19_Witness ==
    /\ conn.busy
    /\ conn.put
    /\ gen_pc = "tts"
    /\ play_pc = "playing"
    /\ Running(current_process)
    /\ play_elapsed >= MinDurationTicks
    /\ request_queue # <<>>

\* both workers wait on their empty queues and the server is up
Quiescent ==
    /\ ~shutdown_event
    /\ request_queue = <<>>
    /\ gen_pc = "get"
    /\ ready_queue = <<>>
    /\ play_pc = "get"

\* C20: nothing is deduplicated. A text that is read is admitted as a
\* message of its own even when the same text was admitted before, and when
\* the pipeline has drained with every synthesis successful there have been
\* one generate_audio call and one player launch per admitted message.
C20_NoDeduplication ==
    /\ (next_ts > 0 /\ conn.resp = "none" /\ conn.text \notin {<<>>, ping})
           => (conn.put /\ Last(admitted) = next_ts)
    /\ (Quiescent /\ player /\ \A i \in DOMAIN tts_log : tts_log[i].r = "ok")
           => /\ TtsCalls = admitted
              /\ [i \in DOMAIN Launches |-> Launches[i].id] = admitted

\* the same text admitted twice, synthesized twice and launched twice
C20_Witness ==
    /\ Len(generated_batch) = 2
    /\ generated_batch[1].text = generated_batch[2].text
    /\ generated_batch[1].ts # generated_batch[2].ts
    /\ admitted = <<generated_batch[1].ts, generated_batch[2].ts>>
    /\ TtsCalls = admitted
    /\ [i \in DOMAIN Launches |-> Launches[i].id] = admitted
    /\ play_pc = "playing"

\* the stamps of a batch of generated audio
BatchStamps(batch) == {batch[i].ts : i \in DOMAIN batch}

\* requests whose audio was put in ready_queue: still waiting there, in the
\* player's hands, or launched already
Pushed ==
    UNION {BatchStamps(ready_queue[i]) : i \in DOMAIN ready_queue}
        \cup BatchStamps(generated_batch)
        \cup {Launches[i].id : i \in DOMAIN Launches}

\* C21: a request whose synthesis fails (raise, None or empty audio) is
\* dropped alone and not retried, and no audio is pushed for it; the other
\* admitted requests are still synthesized and their audio is pushed.
C21_FailureDropsOnlyThatMessage ==
    (~shutdown_event /\ gen_pc = "get" /\ request_queue = <<>>) =>
        /\ TtsCalls = admitted
        /\ \A i \in DOMAIN tts_log :
               tts_log[i].r # "ok" => tts_log[i].ts \notin Pushed
        /\ player =>
               \A i \in DOMAIN tts_log :
                   tts_log[i].r = "ok" => tts_log[i].ts \in Pushed

\* C22: an utterance's WAV file is on disk as long as a player child
\* launched on it is recorded in current_process, it is never unlinked while
\* its audio still waits in ready_queue, the path held by the worker always
\* names an existing file, and an unlinked path is never in use again.
C22_FileOutlivesPlayerState ==
    /\ current_process.kind = "utt" =>
           /\ pw_audio_file \in files
           /\ pw_audio_file.id = current_process.id
    /\ pw_audio_file # NoFile => pw_audio_file \in files
    /\ \A k \in DOMAIN unlinks :
           /\ unlinks[k] \notin files
           /\ unlinks[k] # pw_audio_file
           /\ unlinks[k].kind = "utt" =>
                  \A i \in DOMAIN ready_queue :
                      unlinks[k].id \notin BatchStamps(ready_queue[i])

C22_Witness ==
    /\ current_process.kind = "utt"
    /\ Running(current_process)
    /\ pw_audio_file \in files
    /\ ready_queue # <<>>
    /\ \E k \in DOMAIN unlinks : unlinks[k].kind = "utt"
    /\ \E i \in DOMAIN events : events[i].kind = "term_ready"

\* C23: every WAV file written for an utterance is unlinked exactly once,
\* whether the playback ends by natural exit, interrupt, failed launch or
\* shutdown: a written file is either the one the worker is playing or has
\* been unlinked, and os.unlink is never called twice on a file.
C23_UnlinkedExactlyOnce ==
    /\ \A i, j \in DOMAIN unlinks : i # j => unlinks[i] # unlinks[j]
    /\ next_file = Len(unlinks) + Cardinality(files)
    /\ \A f \in files : f.kind = "utt" => f = pw_audio_file
    /\ play_pc \in {"get", "gap", "done"} => files = {}

C23_Witness ==
    /\ shutdown_event
    /\ files = {}
    /\ \E i, j, k \in DOMAIN events :
           /\ events[i].kind = "term_ready"
           /\ events[j].kind = "exit"
           /\ events[k].kind = "term_shutdown"
           /\ Cardinality({events[i].id, events[j].id, events[k].id}) = 3
    /\ Cardinality({unlinks[n].id : n \in {m \in DOMAIN unlinks :
                                              unlinks[m].kind = "utt"}}) = 3

\* both loops have exited, no player child is alive, no temporary file is left
Terminal ==
    /\ gen_pc = "done"
    /\ play_pc = "done"
    /\ current_process = NoProc
    /\ children = {}
    /\ files = {}
    /\ pw_audio_file = NoFile
    /\ chime_file = NoFile

\* C24: after the shutdown signal, whatever the pipeline was doing, the
\* system is in a terminal state and stays there: generation and playback
\* loops exited, no player child alive, every temporary WAV file unlinked.
C24_ShutdownIsTerminal ==
    shutdown_event => Terminal

C24_Witness ==
    /\ shutdown_event
    /\ Terminal
    /\ \E i \in DOMAIN events : events[i].kind = "term_shutdown"
    /\ tts_inflight # {}
    /\ request_queue # <<>>
    /\ unlinks # <<>>

\* the stamps of the utterance files unlinked so far, in call order
UnlinkedUtterances ==
    LET u == SelectSeq(unlinks, LAMBDA f : f.kind = "utt")
    IN  [i \in DOMAIN u |-> u[i].id]

\* C25: without an audio-player executable starting playback does nothing:
\* no child process is ever created, current_process stays cleared, nothing
\* is heard, and the worker goes on taking the later batches, so that a
\* drained pipeline has handled every successfully synthesized request.
C25_NoPlayerNoOp ==
    ~player =>
        /\ children = {}
        /\ next_pid = 0
        /\ current_process = NoProc
        /\ play_elapsed = 0
        /\ events = <<>>
        /\ play_pc \in {"get", "gap", "done"}
        /\ (Quiescent /\ \A i \in DOMAIN tts_log : tts_log[i].r = "ok")
               => UnlinkedUtterances = admitted

C25_Witness ==
    /\ ~player
    /\ Quiescent
    /\ Len(admitted) = 3
    /\ UnlinkedUtterances = admitted
    /\ Len(tts_log) = 3
    /\ \A i \in DOMAIN tts_log : tts_log[i].r = "ok"
    /\ Len(unlinks) > 3

C27_StopClearsHandle ==
    [][(~shutdown_event /\ shutdown_event')
           => /\ Running(current_process)
                  <=> /\ Len(events') = Len(events) + 1
                      /\ events'[Len(events')].kind = "term_shutdown"
                      /\ current_process \notin children'
              /\ cancel_left' = NoProc]_vars

\* C28: the player command is afplay on Darwin; on any other platform it is
\* the first of mpv --no-terminal, paplay, aplay that `which` finds on PATH,
\* in that order of priority, and None when none of them is found.
C28_PlayerByPriority ==
    LET found(n) == has_which /\ n \in on_path
        expected(r) ==
            IF platform = "darwin" THEN r = <<"afplay">>
            ELSE IF found("mpv") THEN r = <<"mpv", "--no-terminal">>
            ELSE IF found("paplay") THEN r = <<"paplay">>
            ELSE IF found("aplay") THEN r = <<"aplay">>
            ELSE r = NoPlayer
    IN  /\ "get_player" \in called => expected(got_player)
        /\ "get_audio_player" \in called => expected(got_audio_player)

C28_Witness ==
    /\ called = {"get_player", "get_audio_player"}
    /\ platform = "linux"
    /\ on_path = {"paplay", "aplay", "afplay"}
    /\ got_player = <<"paplay">>
    /\ got_audio_player = <<"paplay">>

\* C29: the generated sounds are non-empty, and at 24 kHz the chime lasts
\* strictly between 0.15 s and 0.25 s and the drop tone strictly between
\* 0.10 s and 0.20 s (duration = samples / sample rate).
C29_SoundDurations ==
    /\ "generate_chime" \in called
           => /\ chime > 0
              /\ sample_rate = 24000
                     => 15 * sample_rate < 100 * chime
                        /\ 100 * chime < 25 * sample_rate
    /\ "generate_drop_tone" \in called
           => /\ drop > 0
              /\ sample_rate = 24000
                     => 10 * sample_rate < 100 * drop
                        /\ 100 * drop < 20 * sample_rate

C29_Witness ==
    /\ {"generate_chime", "generate_drop_tone"} \subseteq called
    /\ sample_rate = 24000
    /\ chime = 4560
    /\ drop = 3600

\* C30: with no Groq API key configured, summarize raises ValueError before
\* any HTTP request is sent, and health_check returns False without sending
\* any request.
C30_NoKeyNoRequest ==
    groq_api_key \in {"None", ""}
        => /\ http_requests = <<>>
           /\ summarize_out \in {"unset", "ValueError: not configured"}
           /\ health_out \in {"unset", "False"}

C30_Witness ==
    /\ groq_api_key = "None"
    /\ summarize_out = "ValueError: not configured"
    /\ health_out = "False"
    /\ http_requests = <<>>

\* C31: in every reachable state of the AudioPlayer the process handle,
\* play_start_time and the current audio file are all set or all cleared,
\* whatever the order of play, stop, check_finished, play_chime and
\* play_drop_sound calls, with or without a player executable.
C31_FieldsSetTogether ==
    /\ (current_process = NoProc) <=> (play_start_time = "None")
    /\ (current_process = NoProc) <=> (current_audio_file = NoPath)

C31_Witness ==
    /\ current_process # NoProc
    /\ play_start_time = "set"
    /\ current_audio_file = 3
    /\ ~Running(current_process)
    /\ Len(returned) = 1
    /\ \E p \in children : p.kind = "drop"

C34_ReadyBufferAtMostTwo ==
    Len(ready_queue) <= 2

C36_TimeoutPayloadEnqueued ==
    [][next_ts' = next_ts + 1
           => /\ conn'.resp = "none"
              /\ (strip(conn'.payload) # <<>> /\ strip(conn'.payload) # ping)
                     => /\ conn'.put
                        /\ Len(request_queue') = Len(request_queue) + 1
              /\ conn'.put
                     => Last(request_queue').text
                            = strip(decode(conn'.payload))]_vars

\* C37: a ready batch of k > 1 generated requests is played as k-1 snippets
\* in arrival order, each one followed by the transition chime, and then the
\* last one in full; a batch of one is played in full with no chime before
\* it.
C37_SnippetsThenLast ==
    [][(player /\ ~shutdown_event')
           => /\ (play_pc = "get" /\ play_pc' # "get")
                  => LET b == Head(ready_queue)
                     IN  /\ \A i, j \in 1..Len(b) : i < j => b[i].ts < b[j].ts
                         /\ events'[Len(events) + 1]
                                = Ev("launch", b[1].ts, 0, 0)
                         /\ play_idx' = 1
                         /\ IF Len(b) > 1 THEN play_pc' = "snippet_sleep"
                            ELSE play_pc' \in {"playing", "chime_sleep"}
              /\ (play_pc = "snippet_sleep" /\ play_pc' # "snippet_sleep")
                  => /\ play_idx < Len(generated_batch)
                     /\ play_pc' = "chime_sleep"
                     /\ chime_ctx' = "snippet"
                     /\ Last(events') = Ev("chime_start", 0, 0, 0)
                     /\ play_idx' = play_idx
              /\ (play_pc = "chime_sleep" /\ chime_ctx = "snippet"
                      /\ play_pc' # "chime_sleep")
                  => play_pc' = "gap" /\ play_idx' = play_idx
              /\ (play_pc = "gap" /\ play_pc' # "gap")
                  => /\ play_idx' = play_idx + 1
                     /\ events'[Len(events) + 1]
                            = Ev("launch", generated_batch[play_idx + 1].ts,
                                 0, 0)
                     /\ IF play_idx + 1 < Len(generated_batch)
                        THEN play_pc' = "snippet_sleep"
                        ELSE play_pc' \in {"playing", "chime_sleep"}]_vars

C37_Witness ==
    /\ play_pc = "playing"
    /\ Len(generated_batch) = 3
    /\ play_idx = 3
    /\ current_process.id = generated_batch[3].ts
    /\ Len(events) >= 7
    /\ events[1].kind = "launch" /\ events[1].id = generated_batch[1].ts
    /\ \E i \in 1..Len(events) : events[i].kind = "term_snippet"
    /\ Last(events) = Ev("launch", generated_batch[3].ts, 0, 0)

\* max_wait: float = 0.5, in sleeps of 0.05 s
MaxWaitTicks == 10

\* C38: play_chime returns after at most max_wait of polling, 10 ticks of
\* 50 ms, even if the chime process never exits, terminating that process
\* if it is still running, and returns at once without launching anything
\* when there is no chime file or no player.
C38_ChimeBounded ==
    [][/\ (play_pc = "chime_wait" /\ play_pc' # "chime_wait")
           => /\ chime_ticks + 1 <= MaxWaitTicks
              /\ \A p \in children' : p.pid = chime_proc.pid => ~Running(p)
              /\ chime_proc' = NoProc
       /\ (play_pc = "get" /\ play_pc' = "chime_wait")
           => /\ player
              /\ chime_proc' \in children' \ children
              /\ chime_ticks' = 0
       /\ (play_pc = "get" /\ ~player)
           => \A p \in children' \ children : p.kind # "chime"]_vars

\* C39: the file of a successful play is handed back for cleanup by at most
\* one later call of stop or check_finished: no file is in the log of
\* returned files twice, and a file that was handed back is no longer the
\* current one, so that further calls return None until the next play.
C39_FileReturnedOnce ==
    /\ \A i, j \in 1..Len(returned) :
           returned[i].file = returned[j].file => i = j
    /\ \A i \in 1..Len(returned) :
           /\ returned[i].file # NoPath
           /\ returned[i].file # current_audio_file

C39_Witness ==
    /\ Len(returned) = 2
    /\ returned[1].call = "stop"
    /\ returned[2].call = "check_finished"
    /\ current_audio_file = NoPath
    /\ current_process = NoProc

\* a player process was started on the audio of request ts
Launched(ts) ==
    \E i \in 1..Len(events) : events[i].kind = "launch" /\ events[i].id = ts

Admitted(ts) == \E i \in 1..Len(admitted) : admitted[i] = ts

\* C40: when every TTS call succeeds, every player child exits in the end
\* and no shutdown occurs, every admitted message eventually starts playing.
C40_EveryAdmittedStarts ==
    \A ts \in 1..MaxLiveReqs :
        Admitted(ts) ~> (Launched(ts) \/ shutdown_event)

\* C40, amended: the same when an audio player is available
C40_EveryAdmittedStartsWithPlayer ==
    \A ts \in 1..MaxLiveReqs :
        (Admitted(ts) /\ player) ~> (Launched(ts) \/ shutdown_event)

C40_Witness ==
    /\ player
    /\ ~shutdown_event
    /\ Len(admitted) = 2
    /\ \A ts \in 1..2 : Admitted(ts) /\ Launched(ts)
    /\ Len(generated_batch) = 2
    /\ play_pc = "playing"
    /\ request_queue = <<>>
    /\ ready_queue = <<>>

====
